---- MODULE Spec2Model ----
(***************************************************************************)
(* Off-grid solar sizing: the computation section of streamlit_app.py      *)
(* (load clean-up, energy totals, PV / battery / inverter sizing, module   *)
(* counts) and the calculation functions of utils.py.                      *)
(*                                                                         *)
(* Reals are modelled exactly, as reduced fractions <<n, d>> with d > 0;   *)
(* the rounding error of the binary floating point the program uses is     *)
(* not modelled.  Texts are sequences of one-character strings, so that    *)
(* str.lower(), astype(str) and the numeric parse are computed.            *)
(***************************************************************************)
EXTENDS Integers, Sequences, FiniteSets, TLC

VARIABLES
    appliances,   \* st.session_state.appliances, the raw table
    config,       \* the values of the widgets of section 2
    loads,        \* the cleaned copy the computation works on
    result,       \* the values the computation section leaves behind
    call,         \* the last direct call of a function of utils.py
    pc            \* "edited": the table is read, section 3 has not run yet;
                  \* "computed": the script has run to its end

vars == <<appliances, config, loads, result, call, pc>>

(***************************************************************************)
(* Bounds of the model.                                                    *)
(***************************************************************************)
MaxLoads == 2

(***************************************************************************)
(* Exact arithmetic on fractions.                                          *)
(***************************************************************************)
Abs(x) == IF x < 0 THEN -x ELSE x

RECURSIVE GCD(_, _)
GCD(a, b) == IF b = 0 THEN a ELSE GCD(b, a % b)

Rat(n, d) ==
    LET g == GCD(Abs(n), Abs(d))
        s == IF d < 0 THEN -1 ELSE 1
    IN  <<(s * n) \div g, (s * d) \div g>>

Zero == Rat(0, 1)
FromInt(i) == Rat(i, 1)

RMul(a, b) == Rat(a[1] * b[1], a[2] * b[2])
RDiv(a, b) == Rat(a[1] * b[2], a[2] * b[1])
RAdd(a, b) ==
    LET g == GCD(a[2], b[2])
    IN  Rat(a[1] * (b[2] \div g) + b[1] * (a[2] \div g), (a[2] \div g) * b[2])
RSub(a, b) == RAdd(a, <<-b[1], b[2]>>)
RLeq(a, b) ==
    LET g == GCD(a[2], b[2])
    IN  a[1] * (b[2] \div g) <= b[1] * (a[2] \div g)
RLt(a, b)  == ~RLeq(b, a)
RMax(a, b) == IF RLeq(a, b) THEN b ELSE a
IsZero(a)  == a[1] = 0

\* Mutants of math.ceil: rounding down; truncating and adding one.
ceil_rounds_down(a) == a[1] \div a[2]
ceil_truncate_plus_one(a) == (a[1] \div a[2]) + 1

\* math.ceil: the least integer not below a.
ceil(a) == -((-a[1]) \div a[2])

(***************************************************************************)
(* Texts.                                                                  *)
(***************************************************************************)
Upper == <<"A", "E", "F", "L", "N", "O", "R", "S", "T", "U", "Y">>
Lower == <<"a", "e", "f", "l", "n", "o", "r", "s", "t", "u", "y">>

\* str.lower() on one character.
LowerChar(c) ==
    IF \E i \in 1..Len(Upper) : Upper[i] = c
    THEN Lower[CHOOSE i \in 1..Len(Upper) : Upper[i] = c]
    ELSE c

\* Mutant: the lower-casing is left out.
str_lower_left_out(s) == s

\* Series.str.lower()
str_lower(s) == [i \in 1..Len(s) |-> LowerChar(s[i])]

Digits == <<"0", "1", "2", "3", "4", "5", "6", "7", "8", "9">>
IsDigit(c) == \E i \in 1..10 : Digits[i] = c
DigitVal(c) == (CHOOSE i \in 1..10 : Digits[i] = c) - 1

RECURSIVE DigitsVal(_)
DigitsVal(s) ==
    IF Len(s) = 0 THEN 0
    ELSE 10 * DigitsVal(SubSeq(s, 1, Len(s) - 1)) + DigitVal(s[Len(s)])

AllDigits(s) == Len(s) > 0 /\ \A i \in 1..Len(s) : IsDigit(s[i])

T_None == <<"N", "o", "n", "e">>
T_nan == <<"n", "a", "n">>
T_True == <<"T", "r", "u", "e">>
T_False == <<"F", "a", "l", "s", "e">>
T_true == <<"t", "r", "u", "e">>
T_false == <<"f", "a", "l", "s", "e">>
T_yes == <<"y", "e", "s">>
T_no == <<"n", "o">>
T_1 == <<"1">>
T_0 == <<"0">>
T_Unnamed == <<"U", "n", "n", "a", "m", "e", "d", " ",
               "A", "p", "p", "l", "i", "a", "n", "c", "e">>

(***************************************************************************)
(* Cells of the raw appliance table.  A cell is None, NaN, a boolean, a    *)
(* number or a text; every cell carries all four fields.                   *)
(***************************************************************************)
NoneCell == [kind |-> "none", bool |-> FALSE, num |-> Zero, text |-> <<>>]
NaNCell == [kind |-> "nan", bool |-> FALSE, num |-> Zero, text |-> <<>>]
BoolCell(b) == [kind |-> "bool", bool |-> b, num |-> Zero, text |-> <<>>]
NumCell(q) == [kind |-> "num", bool |-> FALSE, num |-> q, text |-> <<>>]
TextCell(s) == [kind |-> "text", bool |-> FALSE, num |-> Zero, text |-> s]

IsMissing(c) == c.kind \in {"none", "nan"}

(***************************************************************************)
(* Load clean-up (streamlit_app.py, section 3).                            *)
(***************************************************************************)
\* Series.astype(str) on one cell (None, NaN, a boolean or a text).
astype_str(c) ==
    CASE c.kind = "none" -> T_None
      [] c.kind = "nan"  -> T_nan
      [] c.kind = "bool" -> (IF c.bool THEN T_True ELSE T_False)
      [] c.kind = "text" -> c.text

\* Mutant: the empty text is not replaced.
clean_name_keeps_empty(c) ==
    LET s == astype_str(c)
    IN  IF s \in {T_None, T_nan} THEN T_Unnamed ELSE s

\* Fix 1: loads["name"].astype(str).replace({"None": .., "nan": .., "": ..})
clean_name(c) ==
    LET s == astype_str(c)
    IN  IF s \in {T_None, T_nan, <<>>} THEN T_Unnamed ELSE s

\* The parse of a text made of digits, "-" and letters: an optional sign
\* followed by one or more digits is a number, anything else is not.
ParseNumber(s) ==
    IF AllDigits(s)
    THEN [nan |-> FALSE, val |-> FromInt(DigitsVal(s))]
    ELSE IF Len(s) > 1 /\ s[1] = "-" /\ AllDigits(Tail(s))
         THEN [nan |-> FALSE, val |-> FromInt(-DigitsVal(Tail(s)))]
         ELSE [nan |-> TRUE, val |-> Zero]

\* pd.to_numeric(col, errors='coerce') on one cell.
to_numeric(c) ==
    CASE c.kind = "num"  -> [nan |-> FALSE, val |-> c.num]
      [] c.kind = "text" -> ParseNumber(c.text)
      [] c.kind = "bool" -> [nan |-> FALSE, val |-> FromInt(IF c.bool THEN 1 ELSE 0)]
      [] OTHER           -> [nan |-> TRUE, val |-> Zero]

\* Fix 2: pd.to_numeric(loads[col], errors='coerce').fillna(0.0)
clean_numeric(c) ==
    LET v == to_numeric(c)
    IN  IF v.nan THEN Zero ELSE v.val

\* .map({'true': True, 'yes': True, '1': True, 'false': False, ...})
critical_map(s) ==
    CASE s \in {T_true, T_yes, T_1}   -> [nan |-> FALSE, val |-> TRUE]
      [] s \in {T_false, T_no, T_0}   -> [nan |-> FALSE, val |-> FALSE]
      [] OTHER                        -> [nan |-> TRUE, val |-> FALSE]

\* loads["critical"].fillna(False).astype(str).str.lower().map(..).fillna(False)
clean_critical(c) ==
    LET filled == IF IsMissing(c) THEN BoolCell(FALSE) ELSE c
        m == critical_map(str_lower(astype_str(filled)))
    IN  IF m.nan THEN FALSE ELSE m.val

\* Mutant: the row's own steady draw is not subtracted.
net_surge_absolute(surge_w, power_w, qty) == RMax(Zero, surge_w)

\* lambda row: max(0, row['surge_w'] - (row['power_w'] * row['qty']))
net_surge(surge_w, power_w, qty) == RMax(Zero, RSub(surge_w, RMul(power_w, qty)))

\* loads["power_w"] * loads["qty"] * loads["hours_per_day"]
energy_wh(power_w, qty, hours_per_day) == RMul(RMul(power_w, qty), hours_per_day)

\* One row of the cleaned copy `loads`, with its derived columns.
CleanRow(r) ==
    LET p == clean_numeric(r.power_w)
        q == clean_numeric(r.qty)
        h == clean_numeric(r.hours_per_day)
        s == clean_numeric(r.surge_w)
    IN  [name |-> clean_name(r.name),
         power_w |-> p, qty |-> q, hours_per_day |-> h, surge_w |-> s,
         critical |-> clean_critical(r.critical),
         energy_wh |-> energy_wh(p, q, h),
         net_surge |-> net_surge(s, p, q)]

\* loads = st.session_state.appliances.copy() followed by the clean-up.
RECURSIVE CleanLoads(_)
CleanLoads(apps) ==
    IF Len(apps) = 0 THEN <<>>
    ELSE <<CleanRow(Head(apps))>> \o CleanLoads(Tail(apps))

\* Mutant: the total leaves out the critical rows.
RECURSIVE E_total_of_noncritical(_)
E_total_of_noncritical(ls) ==
    IF Len(ls) = 0 THEN Zero
    ELSE IF Head(ls).critical
         THEN E_total_of_noncritical(Tail(ls))
         ELSE RAdd(Head(ls).energy_wh, E_total_of_noncritical(Tail(ls)))

\* loads["energy_wh"].sum()
RECURSIVE E_total_of(_)
E_total_of(ls) ==
    IF Len(ls) = 0 THEN Zero
    ELSE RAdd(Head(ls).energy_wh, E_total_of(Tail(ls)))

\* Mutant: the critical energy is summed per unit, without the quantity.
RECURSIVE E_critical_of_per_unit(_)
E_critical_of_per_unit(ls) ==
    IF Len(ls) = 0 THEN Zero
    ELSE IF Head(ls).critical
         THEN RAdd(RMul(Head(ls).power_w, Head(ls).hours_per_day),
                   E_critical_of_per_unit(Tail(ls)))
         ELSE E_critical_of_per_unit(Tail(ls))

\* loads.loc[loads["critical"], "energy_wh"].sum()
RECURSIVE E_critical_of(_)
E_critical_of(ls) ==
    IF Len(ls) = 0 THEN Zero
    ELSE IF Head(ls).critical
         THEN RAdd(Head(ls).energy_wh, E_critical_of(Tail(ls)))
         ELSE E_critical_of(Tail(ls))

\* (loads["power_w"] * loads["qty"]).sum(), 0.0 for an empty table
RECURSIVE continuous_load_of(_)
continuous_load_of(ls) ==
    IF Len(ls) = 0 THEN Zero
    ELSE RAdd(RMul(Head(ls).power_w, Head(ls).qty), continuous_load_of(Tail(ls)))

\* loads['net_surge'].max() of a table that is not empty
RECURSIVE max_net_surge_of(_)
max_net_surge_of(ls) ==
    IF Len(ls) = 1 THEN Head(ls).net_surge
    ELSE RMax(Head(ls).net_surge, max_net_surge_of(Tail(ls)))

\* inverter_surge: ceil(continuous_load + max_net_surge), 0.0 if empty
inverter_surge_of(ls) ==
    IF Len(ls) > 0
    THEN ceil(RAdd(continuous_load_of(ls), max_net_surge_of(ls)))
    ELSE 0

\* Mutant: the 25% headroom is left out.
inverter_continuous_no_headroom(ls) == ceil(continuous_load_of(ls))

\* inverter_continuous = ceil(continuous_load * 1.25)
inverter_continuous_of(ls) == ceil(RMul(continuous_load_of(ls), Rat(5, 4)))

(***************************************************************************)
(* Calculation functions (utils.py; the same text in streamlit_app.py).    *)
(* A division by a zero Python float raises ZeroDivisionError.             *)
(***************************************************************************)
recommended_system(E_wh, ps_h, eta_inv, eta_batt, eta_misc, safety) ==
    IF IsZero(RMul(eta_inv, eta_batt)) \/ IsZero(RMul(ps_h, eta_misc))
    THEN [outcome |-> "ZeroDivisionError", E_from_panels |-> Zero, pv_watts |-> Zero]
    ELSE LET E_from_panels == RDiv(E_wh, RMul(eta_inv, eta_batt))
             pv_watts == RMul(RDiv(E_from_panels, RMul(ps_h, eta_misc)), safety)
         IN  [outcome |-> "returned", E_from_panels |-> E_from_panels,
              pv_watts |-> pv_watts]

\* Mutant: at least one day of autonomy is always sized.
battery_req_at_least_one_day(E_wh, autonomy, eta_batt, Vsys) ==
    IF IsZero(eta_batt) \/ IsZero(Vsys)
    THEN [outcome |-> "ZeroDivisionError", wh |-> Zero, ah |-> Zero]
    ELSE LET wh == RDiv(RMul(E_wh, RMax(autonomy, FromInt(1))), eta_batt)
         IN  [outcome |-> "returned", wh |-> wh, ah |-> RDiv(wh, Vsys)]

battery_req(E_wh, autonomy, eta_batt, Vsys) ==
    IF IsZero(eta_batt) \/ IsZero(Vsys)
    THEN [outcome |-> "ZeroDivisionError", wh |-> Zero, ah |-> Zero]
    ELSE LET wh == RDiv(RMul(E_wh, autonomy), eta_batt)
         IN  [outcome |-> "returned", wh |-> wh, ah |-> RDiv(wh, Vsys)]

(***************************************************************************)
(* The computation section of the script, from the session's table and the *)
(* widget values to the sizing result.                                     *)
(***************************************************************************)
ErrorResult(e) ==
    [status |-> e, E_total |-> Zero, E_critical |-> Zero,
     pv_watts_full |-> Zero, pv_watts_crit |-> Zero,
     bat_wh_full |-> Zero, bat_ah_full |-> Zero,
     bat_wh_crit |-> Zero, bat_ah_crit |-> Zero,
     num_batt_full |-> 0, num_batt_crit |-> 0,
     num_panels_full |-> 0, num_panels_crit |-> 0,
     continuous_load |-> Zero, inverter_surge |-> 0, inverter_continuous |-> 0,
     controller_current |-> 0, bom |-> <<>>]

\* usable_module_wh = preferred_batt_ah * system_voltage * usable_dod
usable_module_wh_of(cfg) ==
    RMul(FromInt(cfg.preferred_batt_ah * cfg.system_voltage), cfg.usable_dod)

\* ceil(bat_wh / usable_module_wh) if usable_module_wh > 0 else 0
num_batt(bat_wh, usable_module_wh) ==
    IF RLt(Zero, usable_module_wh) THEN ceil(RDiv(bat_wh, usable_module_wh)) ELSE 0

\* ceil(pv_watts / preferred_panel_w) if preferred_panel_w > 0 else 0
num_panels(pv_watts, preferred_panel_w) ==
    IF preferred_panel_w > 0 THEN ceil(RDiv(pv_watts, FromInt(preferred_panel_w))) ELSE 0

\* Mutant: the 0.9 controller efficiency is left out.
controller_current_no_derate(pv_watts_full, system_voltage) ==
    IF system_voltage > 0
    THEN ceil(RDiv(pv_watts_full, FromInt(system_voltage)))
    ELSE 0

\* ceil((pv_watts_full / system_voltage) / 0.9) if system_voltage > 0 else 0
controller_current_of(pv_watts_full, system_voltage) ==
    IF system_voltage > 0
    THEN ceil(RDiv(RDiv(pv_watts_full, FromInt(system_voltage)), Rat(9, 10)))
    ELSE 0

Sizing(ls, cfg) ==
    LET E_total == E_total_of(ls)
        E_critical == E_critical_of(ls)
        rs_full == recommended_system(E_total, cfg.ps_h, cfg.eta_inv,
                       cfg.eta_batt_roundtrip, cfg.eta_misc, cfg.safety_margin)
        rs_crit == recommended_system(E_critical, cfg.ps_h, cfg.eta_inv,
                       cfg.eta_batt_roundtrip, cfg.eta_misc, cfg.safety_margin)
        bat_full == battery_req(E_total, FromInt(cfg.autonomy_days),
                       cfg.eta_batt_roundtrip, FromInt(cfg.system_voltage))
        bat_crit == battery_req(E_critical, FromInt(cfg.autonomy_days),
                       cfg.eta_batt_roundtrip, FromInt(cfg.system_voltage))
        usable == usable_module_wh_of(cfg)
    IN  IF rs_full.outcome # "returned" THEN ErrorResult(rs_full.outcome)
        ELSE IF bat_full.outcome # "returned" THEN ErrorResult(bat_full.outcome)
        ELSE
        [status |-> "ok", E_total |-> E_total, E_critical |-> E_critical,
         pv_watts_full |-> rs_full.pv_watts, pv_watts_crit |-> rs_crit.pv_watts,
         bat_wh_full |-> bat_full.wh, bat_ah_full |-> bat_full.ah,
         bat_wh_crit |-> bat_crit.wh, bat_ah_crit |-> bat_crit.ah,
         num_batt_full |-> num_batt(bat_full.wh, usable),
         num_batt_crit |-> num_batt(bat_crit.wh, usable),
         num_panels_full |-> num_panels(rs_full.pv_watts, cfg.preferred_panel_w),
         num_panels_crit |-> num_panels(rs_crit.pv_watts, cfg.preferred_panel_w),
         continuous_load |-> continuous_load_of(ls),
         inverter_surge |-> inverter_surge_of(ls),
         inverter_continuous |-> inverter_continuous_of(ls),
         controller_current |->
             controller_current_of(rs_full.pv_watts, cfg.system_voltage),
         bom |-> <<>>]

(***************************************************************************)
(* The bill of materials.  An f-string is its template and the values put  *)
(* into it; a quantity is a number cell or a text cell.                    *)
(***************************************************************************)
FString(template, values) == [template |-> template, values |-> values]

BomRow(item, qty_full, qty_crit, notes) ==
    [item |-> item, qty_full |-> qty_full, qty_crit |-> qty_crit, notes |-> notes]

\* The quantity of the "Cables, Breakers,Fuses" row: '- '
T_NoQty == <<"-", " ">>

\* The four lists of the bom dictionary, row by row; qty_full and qty_crit
\* are the panel and battery counts of the two quantity columns.
BomRows(cfg, qty_full, qty_crit, r) ==
    << BomRow(FString("PV panels ({} W)", <<cfg.preferred_panel_w>>),
              NumCell(FromInt(qty_full[1])), NumCell(FromInt(qty_crit[1])),
              FString("Verify Voc (Open Circuit Voltage) and optimize string configuration.",
                      <<>>)),
       BomRow(FString("Battery modules ({} Ah @ {} V)",
                      <<cfg.preferred_batt_ah, cfg.system_voltage>>),
              NumCell(FromInt(qty_full[2])), NumCell(FromInt(qty_crit[2])),
              FString("Configure series/parallel groups to match system voltage. A dedicated Battery Management System (BMS) is mandatory for Li-ion/LiFePO4.",
                      <<>>)),
       BomRow(FString("MPPT Charge Controller", <<>>),
              NumCell(FromInt(1)), NumCell(FromInt(1)),
              FString("MPPT current rating must be > {}A. Verify maximum array Voc is within the controller's input voltage window.",
                      <<r.controller_current>>)),
       BomRow(FString("Inverter (pure sinewave)", <<>>),
              NumCell(FromInt(1)), NumCell(FromInt(1)),
              FString("Inverter continuous power rating must be > {}W. Required surge capacity: {}W.",
                      <<r.inverter_continuous, r.inverter_surge>>)),
       BomRow(FString("Cables, Breakers,Fuses", <<>>),
              TextCell(T_NoQty), TextCell(T_NoQty),
              FString("Use correctly sized cables, DC breakers, fuses per local code",
                      <<>>)) >>

\* Mutant: the critical column repeats the full-load counts.
bom_of_full_counts_twice(cfg, r) ==
    BomRows(cfg, <<r.num_panels_full, r.num_batt_full>>,
            <<r.num_panels_full, r.num_batt_full>>, r)

\* bom = {"Item": [...], "Qty (Full)": [...], "Qty (Critical)": [...], "Notes": [...]}
bom_of(cfg, r) ==
    BomRows(cfg, <<r.num_panels_full, r.num_batt_full>>,
            <<r.num_panels_crit, r.num_batt_crit>>, r)

\* Section 3 followed by the bill of materials of section 4.
WithBom(cfg, r) ==
    IF r.status = "ok" THEN [r EXCEPT !.bom = bom_of(cfg, r)] ELSE r

Compute(ls, cfg) == WithBom(cfg, Sizing(ls, cfg))

(***************************************************************************)
(* Widget values.                                                          *)
(***************************************************************************)
Cfg(v, psh, aut, ah, pw, dod, ei, eb, em, sm) ==
    [system_voltage |-> v, ps_h |-> psh, autonomy_days |-> aut,
     preferred_batt_ah |-> ah, preferred_panel_w |-> pw, usable_dod |-> dod,
     eta_inv |-> ei, eta_batt_roundtrip |-> eb, eta_misc |-> em,
     safety_margin |-> sm]

\* The widgets' default values.
DefaultConfig ==
    Cfg(24, Rat(5, 1), 1, 100, 360, Rat(4, 5),
        Rat(9, 10), Rat(9, 10), Rat(4, 5), Rat(23, 20))

\* Settings the widgets allow: the defaults, the lower and the upper ends
\* of the ranges, and settings in between.
Configs ==
    { DefaultConfig,
      Cfg(12, Rat(2, 1), 0, 50, 100, Rat(1, 5),
          Rat(7, 10), Rat(3, 5), Rat(3, 5), Rat(1, 1)),
      Cfg(48, Rat(8, 1), 7, 300, 600, Rat(1, 1),
          Rat(19, 20), Rat(19, 20), Rat(19, 20), Rat(3, 2)),
      Cfg(12, Rat(21, 4), 2, 200, 250, Rat(1, 2),
          Rat(17, 20), Rat(4, 5), Rat(3, 4), Rat(6, 5)) }

(***************************************************************************)
(* Rows of the "add load" form: power >= 0, quantity >= 1, hours >= 0,     *)
(* surge >= 0, a checkbox.                                                 *)
(***************************************************************************)
T_LED == <<"L", "E", "D">>

Row(n, p, q, h, s, c) ==
    [name |-> n, power_w |-> p, qty |-> q, hours_per_day |-> h,
     surge_w |-> s, critical |-> c]

FormPower == {100}
FormQty == {1, 2}
FormHours == {0, 4}
FormSurge == {0, 150}

FormRows ==
    { Row(TextCell(T_LED), NumCell(FromInt(p)), NumCell(FromInt(q)),
          NumCell(FromInt(h)), NumCell(FromInt(s)), BoolCell(c)) :
        p \in FormPower, q \in FormQty, h \in FormHours, s \in FormSurge,
        c \in BOOLEAN }

NoCall == [fn |-> "none", args |-> <<>>, outcome |-> "none",
           out1 |-> Zero, out2 |-> Zero]

\* The first run of the script: an empty table, the default widget values.
Init ==
    /\ appliances = <<>>
    /\ config = DefaultConfig
    /\ loads = CleanLoads(<<>>)
    /\ result = Compute(CleanLoads(<<>>), DefaultConfig)
    /\ call = NoCall
    /\ pc = "computed"

\* Mutant: section 3 works on the session's table itself, not on a copy, so
\* the cleaned cells end up in the session.
RECURSIVE session_without_copy(_)
session_without_copy(apps) ==
    IF Len(apps) = 0 THEN <<>>
    ELSE LET r == CleanRow(Head(apps))
         IN  <<Row(TextCell(r.name), NumCell(r.power_w), NumCell(r.qty),
                   NumCell(r.hours_per_day), NumCell(r.surge_w),
                   BoolCell(r.critical))>>
             \o session_without_copy(Tail(apps))

\* loads = st.session_state.appliances.copy(): the session's table after
\* section 3 has worked on its copy.
session_after_section3(apps) == apps

\* Section 3 of the script: the copy, the clean-up and the sizing.
Section3 ==
    /\ loads' = CleanLoads(appliances')
    /\ result' = Compute(loads', config')
    /\ pc' = "computed"

\* A run of the script with the table and the widget values it reads.
Run(apps, cfg) ==
    /\ pc = "computed"
    /\ appliances' = session_after_section3(apps)
    /\ config' = cfg
    /\ Section3
    /\ UNCHANGED call

\* "Add load" is submitted.
AddLoad ==
    /\ Len(appliances) < MaxLoads
    /\ \E row \in FormRows : Run(Append(appliances, row), config)

\* A cell of the table is edited in the data editor.
EditCell ==
    \E i \in 1..Len(appliances) :
        \/ \E q \in FormQty :
             /\ appliances[i].qty # NumCell(FromInt(q))
             /\ Run([appliances EXCEPT ![i].qty = NumCell(FromInt(q))], config)
        \/ \E h \in FormHours :
             /\ appliances[i].hours_per_day # NumCell(FromInt(h))
             /\ Run([appliances EXCEPT ![i].hours_per_day = NumCell(FromInt(h))],
                    config)
        \/ \E s \in FormSurge :
             /\ appliances[i].surge_w # NumCell(FromInt(s))
             /\ Run([appliances EXCEPT ![i].surge_w = NumCell(FromInt(s))], config)
        \/ \E c \in BOOLEAN :
             /\ appliances[i].critical # BoolCell(c)
             /\ Run([appliances EXCEPT ![i].critical = BoolCell(c)], config)

\* A row is deleted in the data editor.
DeleteRow ==
    \E i \in 1..Len(appliances) :
        Run(SubSeq(appliances, 1, i - 1) \o SubSeq(appliances, i + 1, Len(appliances)),
            config)

\* A widget of section 2 is changed.
SetConfig ==
    \E c \in Configs : c # config /\ Run(appliances, c)

Next == AddLoad \/ EditCell \/ DeleteRow \/ SetConfig

Spec == Init /\ [][Next]_vars

(***************************************************************************)
(* Tables the data editor can hand back: cells may be None, NaN, numbers   *)
(* of either sign, or any text.                                            *)
(***************************************************************************)
RawNames ==
    { NoneCell, NaNCell, TextCell(<<>>), TextCell(T_LED), TextCell(T_nan) }

RawPower ==
    { NumCell(FromInt(100)), NumCell(FromInt(-100)), NoneCell, NaNCell,
      TextCell(<<"x">>), TextCell(<<"7">>), TextCell(<<"-", "3">>),
      TextCell(<<>>) }
RawQty == { NumCell(FromInt(2)), NumCell(FromInt(-1)), NoneCell, TextCell(<<"3">>) }
RawHours == { NumCell(FromInt(4)), NumCell(Rat(-1, 2)), NaNCell, TextCell(<<"h">>) }
RawSurge == { NumCell(FromInt(150)), NumCell(FromInt(-150)), NoneCell,
              TextCell(<<"1", "2">>) }

RawCritical ==
    { BoolCell(TRUE), BoolCell(FALSE), NoneCell, NaNCell,
      TextCell(<<"Y", "e", "s">>), TextCell(T_yes), TextCell(<<"Y", "E", "S">>),
      TextCell(T_true), TextCell(T_True), TextCell(<<"T", "R", "U", "E">>),
      TextCell(T_1), TextCell(<<"N", "o">>), TextCell(T_no), TextCell(T_false),
      TextCell(T_False), TextCell(T_0), TextCell(<<>>),
      TextCell(<<"m", "a", "y", "b", "e">>), TextCell(<<"y">>),
      TextCell(<<"y", "e", "s", " ">>), TextCell(<<"1", "0">>) }

RawRows ==
    { Row(n, p, q, h, s, c) :
        n \in RawNames, p \in RawPower, q \in RawQty, h \in RawHours,
        s \in RawSurge, c \in RawCritical }

\* Rows for the tables of two rows.
PairRows ==
    { Row(TextCell(T_LED), p, NumCell(FromInt(2)), h, NumCell(FromInt(150)), c) :
        p \in { NumCell(FromInt(100)), NumCell(FromInt(-100)), TextCell(<<"7">>) },
        h \in { NumCell(FromInt(4)), NaNCell },
        c \in { BoolCell(TRUE), BoolCell(FALSE), TextCell(<<"Y", "e", "s">>),
                TextCell(<<"m", "a", "y", "b", "e">>), NoneCell } }

RawTables ==
    {<<>>} \cup { <<r>> : r \in RawRows }
           \cup { <<r1, r2>> : r1 \in PairRows, r2 \in PairRows }

\* The data editor has handed back a table; section 3 has yet to run on it.
InitNorm ==
    /\ appliances \in RawTables
    /\ config = DefaultConfig
    /\ loads = CleanLoads(<<>>)
    /\ result = Compute(CleanLoads(<<>>), DefaultConfig)
    /\ call = NoCall
    /\ pc = "edited"

\* Section 3 runs on the table.
Recompute ==
    /\ pc = "edited"
    /\ appliances' = session_after_section3(appliances)
    /\ UNCHANGED <<config, call>>
    /\ Section3

NextNorm == Recompute

SpecNorm == InitNorm /\ [][NextNorm]_vars

(***************************************************************************)
(* The session step by step: the caller changes the table or a widget,     *)
(* then section 3 runs.  Between the two steps loads and result still hold *)
(* the values of the run before.                                           *)
(***************************************************************************)
SessionPower == { NumCell(FromInt(100)), TextCell(<<"7">>) }
SessionHours == { NumCell(FromInt(4)), NaNCell }
SessionCritical == { BoolCell(TRUE), TextCell(<<"N", "o">>) }

SessionRows ==
    { Row(TextCell(T_LED), p, NumCell(FromInt(2)), h, NumCell(FromInt(150)), c) :
        p \in SessionPower, h \in SessionHours, c \in SessionCritical }

\* The caller's step: the table and the widgets are as given, section 3 has
\* not run on them yet.
Caller(apps, cfg) ==
    /\ pc = "computed"
    /\ appliances' = apps
    /\ config' = cfg
    /\ pc' = "edited"
    /\ UNCHANGED <<loads, result, call>>

CallerAddRow ==
    /\ Len(appliances) < MaxLoads
    /\ \E row \in SessionRows : Caller(Append(appliances, row), config)

CallerEditCell ==
    \E i \in 1..Len(appliances) :
        \/ \E p \in SessionPower :
             /\ appliances[i].power_w # p
             /\ Caller([appliances EXCEPT ![i].power_w = p], config)
        \/ \E h \in SessionHours :
             /\ appliances[i].hours_per_day # h
             /\ Caller([appliances EXCEPT ![i].hours_per_day = h], config)
        \/ \E c \in SessionCritical :
             /\ appliances[i].critical # c
             /\ Caller([appliances EXCEPT ![i].critical = c], config)

CallerDeleteRow ==
    \E i \in 1..Len(appliances) :
        Caller(SubSeq(appliances, 1, i - 1) \o SubSeq(appliances, i + 1, Len(appliances)),
               config)

CallerSetConfig ==
    \E c \in Configs : c # config /\ Caller(appliances, c)

NextSession ==
    CallerAddRow \/ CallerEditCell \/ CallerDeleteRow \/ CallerSetConfig \/ Recompute

SpecSession == Init /\ [][NextSession]_vars

(***************************************************************************)
(* Direct calls of the calculation functions of utils.py, with arguments   *)
(* of any sign.                                                            *)
(***************************************************************************)
CallEnergy == { Zero, FromInt(40), FromInt(800) }
CallSunHours == { FromInt(-5), Zero, FromInt(2), FromInt(5) }
CallEta == { Rat(-9, 10), Zero, Rat(9, 10) }
CallSafety == { FromInt(1), Rat(23, 20) }
CallAutonomy == { Zero, FromInt(1), FromInt(7) }
CallVoltage == { Zero, FromInt(12), FromInt(24) }

CallRecommendedSystem ==
    \E E_wh \in CallEnergy, ps_h \in CallSunHours, eta_inv \in CallEta,
       eta_batt \in CallEta, eta_misc \in CallEta, safety \in CallSafety :
        LET r == recommended_system(E_wh, ps_h, eta_inv, eta_batt, eta_misc, safety)
        IN  /\ call' = [fn |-> "recommended_system",
                        args |-> <<E_wh, ps_h, eta_inv, eta_batt, eta_misc, safety>>,
                        outcome |-> r.outcome,
                        out1 |-> r.E_from_panels, out2 |-> r.pv_watts]
            /\ UNCHANGED <<appliances, config, loads, result, pc>>

CallBatteryReq ==
    \E E_wh \in CallEnergy, autonomy \in CallAutonomy, eta_batt \in CallEta,
       Vsys \in CallVoltage :
        LET r == battery_req(E_wh, autonomy, eta_batt, Vsys)
        IN  /\ call' = [fn |-> "battery_req",
                        args |-> <<E_wh, autonomy, eta_batt, Vsys>>,
                        outcome |-> r.outcome, out1 |-> r.wh, out2 |-> r.ah]
            /\ UNCHANGED <<appliances, config, loads, result, pc>>

NextCall == CallRecommendedSystem \/ CallBatteryReq

SpecCall == Init /\ [][NextCall]_vars

(***************************************************************************)
(* Text sanitization (utils.py).  A character outside ASCII is written by  *)
(* its code point.                                                         *)
(***************************************************************************)
MaxTextLen == 3

Ch_GE == "U+2265"
Ch_LE == "U+2264"
Ch_DEG == "U+00B0"
Ch_OHM == "U+03A9"
Ch_MICRO == "U+00B5"
Ch_TIMES == "U+00D7"
Ch_ENDASH == "U+2013"
Ch_EMDASH == "U+2014"
Ch_CHECK == "U+2714"
Ch_CROSS == "U+2718"
\* Two symbols that are not keys of the table: a rightwards arrow and an "e"
\* with an acute accent.
Ch_ARROW == "U+2192"
Ch_EACUTE == "U+00E9"

NonAsciiCodePoint ==
    (Ch_GE :> 8805) @@ (Ch_LE :> 8804) @@ (Ch_DEG :> 176) @@ (Ch_OHM :> 937)
    @@ (Ch_MICRO :> 181) @@ (Ch_TIMES :> 215) @@ (Ch_ENDASH :> 8211)
    @@ (Ch_EMDASH :> 8212) @@ (Ch_CHECK :> 10004) @@ (Ch_CROSS :> 10008)
    @@ (Ch_ARROW :> 8594) @@ (Ch_EACUTE :> 233)

IsAscii(c) == c \notin DOMAIN NonAsciiCodePoint

\* str.encode("latin-1") succeeds on the code points 0..255.
Latin1Encodable(c) == IsAscii(c) \/ NonAsciiCodePoint[c] <= 255

\* The dictionary of sanitize_text, in its order.
replacements ==
    << <<Ch_GE, <<">", "=">>>>,
       <<Ch_LE, <<"<", "=">>>>,
       <<Ch_DEG, <<" ", "d", "e", "g">>>>,
       <<Ch_OHM, <<" ", "o", "h", "m">>>>,
       <<Ch_MICRO, <<"u">>>>,
       <<Ch_TIMES, <<"x">>>>,
       <<Ch_ENDASH, <<"-">>>>,
       <<Ch_EMDASH, <<"-">>>>,
       <<Ch_CHECK, <<"[", "O", "K", "]">>>>,
       <<Ch_CROSS, <<"[", "X", "]">>>> >>

\* text.replace(k, v) for a key k of one character
RECURSIVE replace(_, _, _)
replace(text, k, v) ==
    IF text = <<>> THEN <<>>
    ELSE (IF Head(text) = k THEN v ELSE <<Head(text)>>) \o replace(Tail(text), k, v)

\* for k, v in replacements.items(): text = text.replace(k, v)
RECURSIVE replace_each(_, _)
replace_each(text, reps) ==
    IF reps = <<>> THEN text
    ELSE replace_each(replace(text, Head(reps)[1], Head(reps)[2]), Tail(reps))

sanitize_text(c) ==
    IF IsMissing(c) THEN <<>>
    ELSE replace_each(IF c.kind = "text" THEN c.text ELSE astype_str(c),
                      replacements)

SanitizeAlphabet == { "a", Ch_GE, Ch_DEG, Ch_ARROW, Ch_EACUTE }

SanitizeTexts == UNION { [1..n -> SanitizeAlphabet] : n \in 0..MaxTextLen }

SanitizeInputs ==
    { NoneCell, NaNCell, BoolCell(TRUE) } \cup { TextCell(t) : t \in SanitizeTexts }

CallSanitizeText ==
    \E c \in SanitizeInputs :
        /\ call' = [fn |-> "sanitize_text", args |-> <<c>>, outcome |-> "ok",
                    out1 |-> sanitize_text(c), out2 |-> Zero]
        /\ UNCHANGED <<appliances, config, loads, result, pc>>

NextText == CallSanitizeText

SpecText == Init /\ [][NextText]_vars

(***************************************************************************)
(* Properties.                                                             *)
(***************************************************************************)
Computed == pc = "computed" /\ result.status = "ok"

RowIdx == 1..Len(loads)

\* Every numeric field of every cleaned row is >= 0.
NonNegativeLoads ==
    \A i \in RowIdx :
        /\ RLeq(Zero, loads[i].power_w) /\ RLeq(Zero, loads[i].qty)
        /\ RLeq(Zero, loads[i].hours_per_day) /\ RLeq(Zero, loads[i].surge_w)

\* The sum of the first n entries of a sequence of fractions.
RECURSIVE SumTo(_, _)
SumTo(f, n) == IF n = 0 THEN Zero ELSE RAdd(SumTo(f, n - 1), f[n])

\* n is the least integer not below the fraction x.
IsCeilOf(n, x) == RLeq(x, FromInt(n)) /\ RLt(FromInt(n - 1), x)

\* C1: recommended_system called with eta_inv, eta_batt, ps_h or eta_misc zero
\* or negative ends in InvalidConfiguration and returns no PV wattage.
C1_BadConfigurationRejected ==
    (/\ call.fn = "recommended_system"
     /\ \E k \in 2..5 : RLeq(call.args[k], Zero))
    => call.outcome = "InvalidConfiguration"

\* C2: after the clean-up every numeric field of every row is >= 0, and so
\* are energy_wh, E_total, E_critical and continuous_load.
C2_NormalizedNonNegative ==
    Computed =>
        /\ NonNegativeLoads
        /\ \A i \in RowIdx : RLeq(Zero, loads[i].energy_wh)
        /\ RLeq(Zero, result.E_total)
        /\ RLeq(Zero, result.E_critical)
        /\ RLeq(Zero, result.continuous_load)

\* C3: for non-negative loads the four module counts are naturals and
\* count * module capacity >= required capacity, in the full and in the
\* critical branch.
C3_NoUnderProvisioning ==
    (Computed /\ NonNegativeLoads) =>
        LET usable == usable_module_wh_of(config)
            pw == config.preferred_panel_w
        IN  /\ result.num_panels_full \in Nat /\ result.num_panels_crit \in Nat
            /\ result.num_batt_full \in Nat /\ result.num_batt_crit \in Nat
            /\ RLeq(result.pv_watts_full, FromInt(result.num_panels_full * pw))
            /\ RLeq(result.pv_watts_crit, FromInt(result.num_panels_crit * pw))
            /\ RLeq(result.bat_wh_full, RMul(FromInt(result.num_batt_full), usable))
            /\ RLeq(result.bat_wh_crit, RMul(FromInt(result.num_batt_crit), usable))

\* A requirement that is not a whole number of modules was rounded up, for
\* panels and batteries, in both branches.
C3_Witness ==
    /\ Computed /\ NonNegativeLoads
    /\ result.num_panels_crit >= 1 /\ result.num_batt_crit >= 1
    /\ RLt(result.pv_watts_full,
           FromInt(result.num_panels_full * config.preferred_panel_w))
    /\ RLt(result.pv_watts_crit,
           FromInt(result.num_panels_crit * config.preferred_panel_w))
    /\ RLt(result.bat_wh_full,
           RMul(FromInt(result.num_batt_full), usable_module_wh_of(config)))
    /\ RLt(result.bat_wh_crit,
           RMul(FromInt(result.num_batt_crit), usable_module_wh_of(config)))

\* Two characters are the same letter in either case.
SameLetter(c, d) ==
    c = d \/ \E i \in 1..Len(Upper) : {c, d} = {Upper[i], Lower[i]}

EqualIgnoringCase(s, t) ==
    Len(s) = Len(t) /\ \A i \in 1..Len(s) : SameLetter(s[i], t[i])

\* The raw flag is the boolean True, or a text that is "true", "yes" or "1"
\* up to case.
Truthy(c) ==
    \/ c.kind = "bool" /\ c.bool
    \/ c.kind = "text" /\ \E t \in {T_true, T_yes, T_1} : EqualIgnoringCase(c.text, t)

\* C4: a row's critical flag is true exactly when its raw value is True or
\* a text equal to "true", "yes" or "1" up to case, and E_critical is the
\* energy of the rows whose flag is true.
C4_CriticalNormalization ==
    Computed =>
        /\ Len(loads) = Len(appliances)
        /\ \A i \in RowIdx : loads[i].critical = Truthy(appliances[i].critical)
        /\ result.E_critical =
             SumTo([i \in RowIdx |->
                      IF Truthy(appliances[i].critical)
                      THEN loads[i].energy_wh ELSE Zero], Len(loads))

\* Two rows with energy, one flagged by the text "Yes" and counted, one with
\* an unrecognised text and not counted.
C4_Witness ==
    /\ Computed /\ Len(loads) = 2
    /\ appliances[1].critical = TextCell(<<"Y", "e", "s">>)
    /\ appliances[2].critical = TextCell(<<"m", "a", "y", "b", "e">>)
    /\ loads[1].critical /\ ~loads[2].critical
    /\ RLt(Zero, loads[2].energy_wh)
    /\ result.E_critical = loads[1].energy_wh
    /\ RLt(result.E_critical, result.E_total)

\* The decimal text of an integer between -99 and 99.
DecimalText(k) ==
    LET a == IF k < 0 THEN -k ELSE k
        d == IF a < 10 THEN <<Digits[a + 1]>>
             ELSE <<Digits[(a \div 10) + 1], Digits[(a % 10) + 1]>>
    IN  IF k < 0 THEN <<"-">> \o d ELSE d

\* The raw cell holds no number: it is None, NaN, or a text that is not the
\* decimal text of a number.
NoNumber(c) ==
    \/ IsMissing(c)
    \/ c.kind = "text" /\ ~\E k \in -99..99 : DecimalText(k) = c.text

\* C5: the clean-up finishes without an error on every raw table; every name
\* is a non-empty text, "Unnamed Appliance" when the raw name is missing or
\* empty; every numeric field is 0 where the raw value is missing or
\* unparseable.
C5_NormalizationTotal ==
    pc = "computed" =>
        /\ result.status = "ok"
        /\ Len(loads) = Len(appliances)
        /\ \A i \in RowIdx :
             /\ Len(loads[i].name) > 0
             /\ (IsMissing(appliances[i].name) \/ appliances[i].name = TextCell(<<>>))
                    => loads[i].name = T_Unnamed
             /\ NoNumber(appliances[i].power_w) => loads[i].power_w = Zero
             /\ NoNumber(appliances[i].qty) => loads[i].qty = Zero
             /\ NoNumber(appliances[i].hours_per_day) => loads[i].hours_per_day = Zero
             /\ NoNumber(appliances[i].surge_w) => loads[i].surge_w = Zero

\* A row with an empty name, an unparseable power, a missing quantity and a
\* parseable surge text has been cleaned.
C5_Witness ==
    /\ pc = "computed" /\ Len(loads) = 1
    /\ appliances[1].name = TextCell(<<>>)
    /\ appliances[1].power_w = TextCell(<<"x">>)
    /\ appliances[1].qty = NoneCell
    /\ appliances[1].hours_per_day = NaNCell
    /\ appliances[1].surge_w = TextCell(<<"1", "2">>)
    /\ loads[1].name = T_Unnamed
    /\ loads[1].surge_w = FromInt(12)

\* C6: with an empty table both energy totals, the four module counts and
\* both inverter ratings are 0, and the run ends without an error.
C6_EmptyLoadList ==
    (pc = "computed" /\ Len(appliances) = 0) =>
        /\ result.status = "ok"
        /\ result.E_total = Zero /\ result.E_critical = Zero
        /\ result.num_panels_full = 0 /\ result.num_panels_crit = 0
        /\ result.num_batt_full = 0 /\ result.num_batt_crit = 0
        /\ result.inverter_continuous = 0 /\ result.inverter_surge = 0

\* The table is empty again after a row was deleted, under settings other
\* than the defaults.
C6_Witness ==
    /\ pc = "computed" /\ Len(appliances) = 0
    /\ config # DefaultConfig /\ config.autonomy_days > 0

\* The surge of row i above its own steady draw, from the cleaned fields.
SurgeAbove(i) ==
    LET steady == RMul(loads[i].power_w, loads[i].qty)
    IN  IF RLt(steady, loads[i].surge_w) THEN RSub(loads[i].surge_w, steady) ELSE Zero

\* The largest SurgeAbove of the table, 0 for an empty table.
LargestSurgeAbove ==
    IF Len(loads) = 0 THEN Zero
    ELSE LET j == CHOOSE j \in RowIdx : \A i \in RowIdx : RLeq(SurgeAbove(i), SurgeAbove(j))
         IN  SurgeAbove(j)

SteadyDraw == SumTo([i \in RowIdx |-> RMul(loads[i].power_w, loads[i].qty)], Len(loads))

\* C7: inverter_surge is the least integer not below continuous_load plus the
\* largest per-row max(0, surge_w - power_w * qty), where continuous_load is
\* the sum of power_w * qty.
C7_InverterSurge ==
    Computed =>
        /\ result.continuous_load = SteadyDraw
        /\ IsCeilOf(result.inverter_surge, RAdd(SteadyDraw, LargestSurgeAbove))

\* Two rows that both surge above their steady draw: the rating is neither
\* the steady draw plus the largest surge_w nor plus the sum of the surges.
C7_Witness ==
    /\ Computed /\ Len(loads) = 2
    /\ RLt(Zero, SurgeAbove(1)) /\ RLt(Zero, SurgeAbove(2))
    /\ result.inverter_surge = 250
    /\ result.inverter_surge # ceil(RAdd(SteadyDraw, RMax(loads[1].surge_w, loads[2].surge_w)))
    /\ result.inverter_surge # ceil(RAdd(SteadyDraw, RAdd(SurgeAbove(1), SurgeAbove(2))))

\* C8: for non-negative loads E_critical <= E_total, and the critical branch
\* never asks for more PV watts, battery Wh, panels or battery modules than
\* the full branch.
C8_CriticalWithinFull ==
    (Computed /\ NonNegativeLoads) =>
        /\ RLeq(result.E_critical, result.E_total)
        /\ RLeq(result.pv_watts_crit, result.pv_watts_full)
        /\ RLeq(result.bat_wh_crit, result.bat_wh_full)
        /\ result.num_panels_crit <= result.num_panels_full
        /\ result.num_batt_crit <= result.num_batt_full

\* Part of the energy is critical, and the critical branch needs fewer
\* panels and fewer battery modules.
C8_Witness ==
    /\ Computed /\ NonNegativeLoads
    /\ RLt(Zero, result.E_critical) /\ RLt(result.E_critical, result.E_total)
    /\ 0 < result.num_panels_crit /\ result.num_panels_crit < result.num_panels_full
    /\ 0 < result.num_batt_crit /\ result.num_batt_crit < result.num_batt_full

\* C9: with autonomy_days = 0 the battery Wh and Ah of both branches are 0 and
\* so are both battery module counts, whatever the table holds.
C9_ZeroAutonomy ==
    (Computed /\ config.autonomy_days = 0) =>
        /\ result.bat_wh_full = Zero /\ result.bat_ah_full = Zero
        /\ result.bat_wh_crit = Zero /\ result.bat_ah_crit = Zero
        /\ result.num_batt_full = 0 /\ result.num_batt_crit = 0

\* No autonomy is asked for while the table has critical energy.
C9_Witness ==
    /\ Computed /\ config.autonomy_days = 0
    /\ RLt(Zero, result.E_critical) /\ RLt(result.E_critical, result.E_total)

\* C10: when every row with energy is critical, the critical branch equals
\* the full branch in PV watts, battery Wh and Ah, panels and battery modules.
C10_AllCriticalEqualsFull ==
    (Computed /\ \A i \in RowIdx : loads[i].energy_wh # Zero => loads[i].critical) =>
        /\ result.E_critical = result.E_total
        /\ result.pv_watts_crit = result.pv_watts_full
        /\ result.bat_wh_crit = result.bat_wh_full
        /\ result.bat_ah_crit = result.bat_ah_full
        /\ result.num_panels_crit = result.num_panels_full
        /\ result.num_batt_crit = result.num_batt_full

\* A critical row with energy next to a row without energy that is not
\* critical, with batteries asked for.
C10_Witness ==
    /\ Computed /\ Len(loads) = 2
    /\ loads[1].critical /\ loads[1].energy_wh # Zero /\ loads[1].qty = FromInt(2)
    /\ ~loads[2].critical /\ loads[2].energy_wh = Zero
    /\ result.num_batt_crit > 0 /\ result.num_panels_crit > 0

\* The tables of two steps differ at most in the critical flags.
SameButCritical ==
    /\ Len(appliances') = Len(appliances)
    /\ \A i \in 1..Len(appliances) :
         [appliances'[i] EXCEPT !.critical = appliances[i].critical] = appliances[i]

\* C11: controller_current is the least integer not below
\* (pv_watts_full / system_voltage) / 0.9 when system_voltage > 0 and 0
\* otherwise, and a step that changes nothing but critical flags leaves it
\* as it is.
C11_ControllerCurrent ==
    /\ [](Computed =>
            IF config.system_voltage > 0
            THEN IsCeilOf(result.controller_current,
                          RDiv(RMul(result.pv_watts_full, FromInt(10)),
                               FromInt(9 * config.system_voltage)))
            ELSE result.controller_current = 0)
    /\ [][(Computed /\ Computed' /\ config' = config /\ SameButCritical)
             => result'.controller_current = result.controller_current]_vars

\* A row is critical, the critical branch needs less PV than the full one,
\* and the controller is sized above the undivided current.
C11_Witness ==
    /\ Computed /\ Len(loads) = 2
    /\ loads[1].critical /\ ~loads[2].critical
    /\ RLt(Zero, result.pv_watts_crit)
    /\ RLt(result.pv_watts_crit, result.pv_watts_full)
    /\ result.controller_current >
         ceil(RDiv(result.pv_watts_full, FromInt(config.system_voltage)))

\* The cleaned tables of two steps differ at most in hours_per_day and in
\* the energy derived from it.
SameButHours ==
    /\ Len(loads') = Len(loads)
    /\ \A i \in 1..Len(loads) :
         [loads'[i] EXCEPT !.hours_per_day = loads[i].hours_per_day,
                           !.energy_wh = loads[i].energy_wh] = loads[i]

\* C12: inverter_continuous is the least integer not below 1.25 times the
\* sum of power_w * qty, it is not below that sum when the loads are
\* non-negative, and a run on a table that differs from the table of the
\* run before in hours_per_day only gives the same inverter_continuous.
C12_InverterContinuous ==
    /\ [](Computed =>
            /\ result.continuous_load = SteadyDraw
            /\ IsCeilOf(result.inverter_continuous, RMul(Rat(5, 4), SteadyDraw))
            /\ NonNegativeLoads =>
                 RLeq(SteadyDraw, FromInt(result.inverter_continuous)))
    /\ [][(/\ pc = "edited" /\ result.status = "ok" /\ Computed'
           /\ config' = config /\ SameButHours)
             => result'.inverter_continuous = result.inverter_continuous]_vars

\* A steady draw of 14 W is rated 18 W, rounded up from 17.5, on a row whose
\* hours are 0.
C12_Witness ==
    /\ Computed /\ Len(loads) = 1
    /\ loads[1].hours_per_day = Zero
    /\ SteadyDraw = FromInt(14)
    /\ result.inverter_continuous = 18

\* C14: the bill of materials has five rows, in the order PV panels, battery
\* modules, charge controller, inverter, ancillary hardware; the first two
\* carry the panel and battery counts of the full and the critical branch,
\* the controller and inverter notes carry controller_current,
\* inverter_continuous and inverter_surge, and the quantities of the last row
\* are a text, not a number.
C14_BillOfMaterials ==
    Computed =>
        LET bom == result.bom
        IN  /\ Len(bom) = 5
            /\ bom[1].item = FString("PV panels ({} W)", <<config.preferred_panel_w>>)
            /\ bom[2].item = FString("Battery modules ({} Ah @ {} V)",
                                     <<config.preferred_batt_ah, config.system_voltage>>)
            /\ bom[3].item.template = "MPPT Charge Controller"
            /\ bom[4].item.template = "Inverter (pure sinewave)"
            /\ bom[5].item.template = "Cables, Breakers,Fuses"
            /\ bom[1].qty_full = NumCell(FromInt(result.num_panels_full))
            /\ bom[1].qty_crit = NumCell(FromInt(result.num_panels_crit))
            /\ bom[2].qty_full = NumCell(FromInt(result.num_batt_full))
            /\ bom[2].qty_crit = NumCell(FromInt(result.num_batt_crit))
            /\ bom[3].notes.values = <<result.controller_current>>
            /\ bom[4].notes.values =
                 <<result.inverter_continuous, result.inverter_surge>>
            /\ bom[5].qty_full.kind = "text" /\ bom[5].qty_crit.kind = "text"
            /\ ~AllDigits(bom[5].qty_full.text) /\ ~AllDigits(bom[5].qty_crit.text)

\* A bill of materials whose full and critical counts differ, with a
\* controller current and inverter ratings above 0.
C14_Witness ==
    /\ Computed
    /\ 0 < result.num_panels_crit /\ result.num_panels_crit < result.num_panels_full
    /\ 0 < result.num_batt_crit /\ result.num_batt_crit < result.num_batt_full
    /\ result.controller_current > 0
    /\ result.inverter_continuous > 0 /\ result.inverter_surge > 0
    /\ result.bom[2].qty_crit = NumCell(FromInt(result.num_batt_crit))

\* C13: after every recomputation the cleaned loads, the sizing and the bill
\* of materials are the ones computed from scratch from the load list and the
\* configuration of the session at that moment (no value of an earlier run
\* survives), and a recomputation leaves the session's load list and its
\* configuration as they were.
C13_RecomputedFromScratch ==
    /\ [](pc = "computed" =>
            /\ loads = CleanLoads(appliances)
            /\ result = Compute(CleanLoads(appliances), config)
            /\ (result.status = "ok" => result.bom = bom_of(config, result)))
    /\ [][(pc = "edited" /\ pc' = "computed") =>
            (appliances' = appliances /\ config' = config)]_vars

\* A recomputation of a session table that holds a power typed as text and
\* a missing hours cell: the cleaned copy differs from the table, which still
\* holds the raw cells, and the result comes from the cleaned copy.
C13_Witness ==
    /\ Computed
    /\ Len(appliances) = 2
    /\ appliances[1].power_w = TextCell(<<"7">>)
    /\ appliances[2].hours_per_day = NaNCell
    /\ loads[1].power_w = FromInt(7)
    /\ loads[2].hours_per_day = Zero
    /\ result.E_total = FromInt(56)
    /\ Len(result.bom) = 5

\* C15: the text sanitize_text returns holds no symbol outside ASCII that the
\* formatter (Latin-1) cannot encode, every such symbol of the input having
\* been replaced by ASCII text, and it is the empty text for None and NaN.
C15_SanitizedTextEncodable ==
    call.fn = "sanitize_text" =>
        /\ IsMissing(call.args[1]) => call.out1 = <<>>
        /\ \A i \in 1..Len(call.out1) : Latin1Encodable(call.out1[i])

====
